---- MODULE Spec2Model ----
(***************************************************************************)
(* Model of quick::lazy_map (src/lazy_map.hpp): a copy-on-write map whose  *)
(* handles share a chain of reference-counted fragments.                   *)
(*                                                                         *)
(* The heap of Fragment objects is the function frags; a handle is a slot  *)
(* of head_ holding the id of its head fragment (0 = no object / nullptr). *)
(* The use count of the std::shared_ptr control block is stored in each    *)
(* fragment and updated the way shared_ptr copies, moves and destructors   *)
(* update it.                                                              *)
(***************************************************************************)
EXTENDS Integers, Sequences, FiniteSets, TLC

\* ---- bounds ----
NumHandles == 2
NumKeys == 2
NumVals == 2
\* number of operations the program performs after its first two statements
MaxOps == 2

Handles == 1..NumHandles
Keys == 1..NumKeys
Vals == 1..NumVals
\* addresses of Fragment objects: the first map's fragment, one for the
\* erase the program may start with, one more for each operation, and one for
\* the operation a property looks ahead to
FragIds == 1..(MaxOps + 3)

\* nullptr of Fragment* / shared_ptr<Fragment>
Null == 0
\* a key that has no entry in an unordered_map
Absent == -1
\* result of an operation that threw std::out_of_range(key_error)
KeyError == -2
\* std::optional<V>() returned by move_only
EmptyOptional == -3

\* initializer lists the program constructs maps from: {} and {{k, 1} for each k}
Literals == {[k \in Keys |-> Absent], [k \in Keys |-> 1]}

VARIABLES frags, head_, ref, steps, thr
vars == <<frags, head_, ref, steps, thr>>

\* thr[h] is the position of the thread that uses handle h inside the
\* operation it is performing; a thread between operations is Idle
Idle == [pc |-> "idle", op |-> "none", k |-> 0, v |-> 0, rel |-> Null]

\* ---- std::unordered_map / std::unordered_set helpers ----
EmptyMap == [k \in Keys |-> Absent]

contains_key(c, k) == c[k] # Absent

\* iteration order of an unordered_map: the keys it holds, in one fixed order
LocalKeys(m) == SelectSeq([i \in 1..NumKeys |-> i], LAMBDA k : m[k] # Absent)

MapSize(m) == Cardinality({k \in Keys : m[k] # Absent})

\* unordered_map::emplace: inserts only when the key has no entry
map_emplace(m, k, v) == IF m[k] = Absent THEN [m EXCEPT ![k] = v] ELSE m

\* faulty variant of put_key_value: never overwrites an existing entry
put_key_value_noassign(m, k, v) == map_emplace(m, k, v)

\* container[k] = v
put_key_value(m, k, v) ==
  IF m[k] = Absent THEN map_emplace(m, k, v) ELSE [m EXCEPT ![k] = v]

\* ---- Fragment ----
NoFragment ==
  [live |-> FALSE, parent_ |-> Null, key_values_ |-> EmptyMap,
   deleted_keys_ |-> {}, size_ |-> 0, use_count |-> 0]

\* Fragment() / Fragment(initializer_list) / Fragment(first, last)
NewFragment(m) ==
  [live |-> TRUE, parent_ |-> Null, key_values_ |-> m,
   deleted_keys_ |-> {}, size_ |-> MapSize(m), use_count |-> 1]

\* faulty variant of Fragment(std::shared_ptr<Fragment>&& parent): leaves
\* size_ at its default
ChildFragment_nosize(F, p) ==
  [live |-> TRUE, parent_ |-> p, key_values_ |-> EmptyMap,
   deleted_keys_ |-> {}, size_ |-> 0, use_count |-> 1]

\* Fragment(std::shared_ptr<Fragment>&& parent): the reference is moved in, so
\* the parent's use count does not change
ChildFragment(F, p) ==
  [live |-> TRUE, parent_ |-> p, key_values_ |-> EmptyMap,
   deleted_keys_ |-> {}, size_ |-> F[p].size_, use_count |-> 1]

\* std::make_shared: the allocator's choice of address, here the lowest free id
FreeIds(F) == {f \in FragIds : ~F[f].live}
HasFree(F) == FreeIds(F) # {}
NewId(F) == IF HasFree(F) THEN CHOOSE f \in FreeIds(F) : \A g \in FreeIds(F) : f <= g
            ELSE Null

\* faulty variant of Release: destroys the fragment without giving up the
\* reference that its parent_ member held
Release_keepparent(F, f) ==
  IF f = Null THEN F
  ELSE IF F[f].use_count > 1
       THEN [F EXCEPT ![f].use_count = @ - 1]
       ELSE [F EXCEPT ![f] = NoFragment]

\* ~shared_ptr<Fragment>: drop one reference; the last one destroys the
\* fragment, whose parent_ member is then released in turn
RECURSIVE Release(_, _)
Release(F, f) ==
  IF f = Null THEN F
  ELSE IF F[f].use_count > 1
       THEN [F EXCEPT ![f].use_count = @ - 1]
       ELSE Release([F EXCEPT ![f] = NoFragment], F[f].parent_)

\* shared_ptr copy constructor
Acquire(F, f) == [F EXCEPT ![f].use_count = @ + 1]

\* head_.unique()
unique(F, f) == F[f].use_count = 1

\* ---- read operations of lazy_map ----

\* is_detached()
is_detached(F, hd) == F[hd].parent_ = Null

\* get_depth(): counts the fragments above the head
RECURSIVE depth_from(_, _)
depth_from(F, p) == IF p = Null THEN 0 ELSE 1 + depth_from(F, F[p].parent_)
get_depth(F, hd) == depth_from(F, F[hd].parent_)

\* size() / empty()
size(F, hd) == F[hd].size_
empty(F, hd) == size(F, hd) = 0

\* static contains_internal(const Fragment* node, const K& k)
RECURSIVE contains_internal(_, _, _)
contains_internal(F, node, k) ==
  IF node = Null THEN FALSE
  ELSE IF contains_key(F[node].key_values_, k) THEN TRUE
  ELSE IF k \in F[node].deleted_keys_ THEN FALSE
  ELSE contains_internal(F, F[node].parent_, k)

\* contains(k)
contains(F, hd, k) == contains_internal(F, hd, k)

\* An iterator: the head it was made from, the fragment it scans (Null = end)
\* and it_, a position in LocalKeys of that fragment's key_values_.
EndIter == [head |-> Null, current |-> Null, it |-> 0]

is_end(iter) == iter.current = Null

\* faulty variant of find's loop: walks past tombstones
RECURSIVE find_from_notomb(_, _, _, _)
find_from_notomb(F, hd, p, k) ==
  IF p = Null THEN EndIter
  ELSE IF contains_key(F[p].key_values_, k)
       THEN [head |-> hd, current |-> p,
             it |-> CHOOSE i \in 1..Len(LocalKeys(F[p].key_values_)) :
                       LocalKeys(F[p].key_values_)[i] = k]
  ELSE find_from_notomb(F, hd, F[p].parent_, k)

\* find(k): the loop over p = head_, p->parent(), ...
RECURSIVE find_from(_, _, _, _)
find_from(F, hd, p, k) ==
  IF p = Null THEN EndIter
  ELSE IF contains_key(F[p].key_values_, k)
       THEN [head |-> hd, current |-> p,
             it |-> CHOOSE i \in 1..Len(LocalKeys(F[p].key_values_)) :
                       LocalKeys(F[p].key_values_)[i] = k]
  ELSE IF k \in F[p].deleted_keys_ THEN EndIter
  ELSE find_from(F, hd, F[p].parent_, k)

find(F, hd, k) == find_from(F, hd, hd, k)

\* operator*: the (key, value) pair under it_
deref(F, iter) ==
  LET ks == LocalKeys(F[iter.current].key_values_)
  IN <<ks[iter.it], F[iter.current].key_values_[ks[iter.it]]>>

\* faulty variant of at: looks the key up past tombstones
at_notomb(F, hd, k) ==
  LET iter == find_from_notomb(F, hd, hd, k)
  IN IF is_end(iter) THEN KeyError ELSE deref(F, iter)[2]

\* at(k): KeyError stands for the thrown std::out_of_range
at(F, hd, k) ==
  LET iter == find(F, hd, k)
  IN IF is_end(iter) THEN KeyError ELSE deref(F, iter)[2]

\* ---- const_iter_impl ----

\* faulty variant of should_ignore_key's walk: looks at nearer bindings only,
\* not at nearer tombstones
RECURSIVE should_ignore_from_locals(_, _, _, _)
should_ignore_from_locals(F, c, current, k) ==
  IF c = current THEN FALSE
  ELSE IF contains_key(F[c].key_values_, k) THEN TRUE
  ELSE should_ignore_from_locals(F, F[c].parent_, current, k)

\* should_ignore_key(k): walks c = head_ .. current_ (exclusive)
RECURSIVE should_ignore_from(_, _, _, _)
should_ignore_from(F, c, current, k) ==
  IF c = current THEN FALSE
  ELSE IF contains_key(F[c].key_values_, k) \/ k \in F[c].deleted_keys_ THEN TRUE
  ELSE should_ignore_from(F, F[c].parent_, current, k)

should_ignore_key(F, iter, k) == should_ignore_from(F, iter.head, iter.current, k)

\* move_forward_to_closest_valid_position(): ok = its return value
RECURSIVE move_forward_to_closest_valid_position(_, _)
move_forward_to_closest_valid_position(F, iter) ==
  IF iter.it > Len(LocalKeys(F[iter.current].key_values_))
  THEN IF F[iter.current].parent_ = Null
       THEN [ok |-> FALSE, iter |-> iter]
       ELSE move_forward_to_closest_valid_position(
              F, [iter EXCEPT !.current = F[iter.current].parent_, !.it = 1])
  ELSE [ok |-> TRUE, iter |-> iter]

\* move_forward_to_closest_non_deleted_valid_position()
RECURSIVE move_forward_to_closest_non_deleted_valid_position(_, _)
move_forward_to_closest_non_deleted_valid_position(F, iter) ==
  LET r == move_forward_to_closest_valid_position(F, iter)
  IN IF ~r.ok THEN r
     ELSE IF should_ignore_key(F, r.iter, deref(F, r.iter)[1])
          THEN move_forward_to_closest_non_deleted_valid_position(
                 F, [r.iter EXCEPT !.it = @ + 1])
          ELSE r

\* const_iter_impl(const Fragment* head), which begin() returns
begin(F, hd) ==
  IF hd = Null THEN EndIter
  ELSE LET r == move_forward_to_closest_non_deleted_valid_position(
                  F, [head |-> hd, current |-> hd, it |-> 1])
       IN IF r.ok THEN r.iter ELSE [r.iter EXCEPT !.current = Null]

\* operator++
increment(F, iter) ==
  LET r == move_forward_to_closest_non_deleted_valid_position(
             F, [iter EXCEPT !.it = @ + 1])
  IN IF r.ok THEN r.iter ELSE [r.iter EXCEPT !.current = Null]

\* for (auto& e : m): the sequence of pairs the loop from begin() to end() sees
RECURSIVE iterate_from(_, _)
iterate_from(F, iter) ==
  IF is_end(iter) THEN <<>>
  ELSE <<deref(F, iter)>> \o iterate_from(F, increment(F, iter))

iterate(F, hd) == iterate_from(F, begin(F, hd))

\* ---- mutating operations of lazy_map, on a heap F and the handle's head hd ----

\* faulty variant of prepare_for_edit: edits the head in place even when shared
prepare_for_edit_inplace(F, hd) == [F |-> F, hd |-> hd]

\* prepare_for_edit(): wraps a shared head in a new, uniquely owned child
prepare_for_edit(F, hd) ==
  IF ~unique(F, hd)
  THEN LET new_node == NewId(F)
       IN [F |-> [F EXCEPT ![new_node] = ChildFragment(F, hd)], hd |-> new_node]
  ELSE [F |-> F, hd |-> hd]

\* faulty variant of insert_or_assign: leaves a tombstone of k in place
insert_or_assign_keeptomb(F, hd, k, v) ==
  LET P == prepare_for_edit(F, hd)
      inc == IF contains_internal(P.F, P.hd, k) THEN 0 ELSE 1
  IN [F |-> [P.F EXCEPT ![P.hd].size_ = @ + inc,
                        ![P.hd].key_values_ = put_key_value(@, k, v)],
      hd |-> P.hd]

\* insert_or_assign(k, v)
insert_or_assign(F, hd, k, v) ==
  LET P == prepare_for_edit(F, hd)
      inc == IF contains_internal(P.F, P.hd, k) THEN 0 ELSE 1
  IN [F |-> [P.F EXCEPT ![P.hd].size_ = @ + inc,
                        ![P.hd].deleted_keys_ = @ \ {k},
                        ![P.hd].key_values_ = put_key_value(@, k, v)],
      hd |-> P.hd]

\* faulty variant of insert: writes to the head without prepare_for_edit()
insert_noprepare(F, hd, k, v) ==
  IF contains_internal(F, hd, k) THEN [F |-> F, hd |-> hd, ret |-> FALSE]
  ELSE [F |-> [F EXCEPT ![hd].deleted_keys_ = @ \ {k},
                        ![hd].key_values_ = map_emplace(@, k, v),
                        ![hd].size_ = @ + 1],
        hd |-> hd, ret |-> TRUE]

\* insert(k, v)
insert(F, hd, k, v) ==
  IF contains_internal(F, hd, k) THEN [F |-> F, hd |-> hd, ret |-> FALSE]
  ELSE LET P == prepare_for_edit(F, hd)
       IN [F |-> [P.F EXCEPT ![P.hd].deleted_keys_ = @ \ {k},
                             ![P.hd].key_values_ = map_emplace(@, k, v),
                             ![P.hd].size_ = @ + 1],
           hd |-> P.hd, ret |-> TRUE]

\* faulty variant of emplace: calls prepare_for_edit() before looking for k
emplace_eager(F, hd, k, v) ==
  LET P == prepare_for_edit(F, hd)
  IN IF contains_internal(F, hd, k) THEN [F |-> P.F, hd |-> P.hd, ret |-> FALSE]
     ELSE [F |-> [P.F EXCEPT ![P.hd].deleted_keys_ = @ \ {k},
                             ![P.hd].key_values_ = map_emplace(@, k, v),
                             ![P.hd].size_ = @ + 1],
           hd |-> P.hd, ret |-> TRUE]

\* emplace(k, args...): v is the value the arguments construct
emplace(F, hd, k, v) ==
  IF contains_internal(F, hd, k) THEN [F |-> F, hd |-> hd, ret |-> FALSE]
  ELSE LET P == prepare_for_edit(F, hd)
       IN [F |-> [P.F EXCEPT ![P.hd].deleted_keys_ = @ \ {k},
                             ![P.hd].key_values_ = map_emplace(@, k, v),
                             ![P.hd].size_ = @ + 1],
           hd |-> P.hd, ret |-> TRUE]

\* faulty variant of clear: empties the head in place instead of replacing it
clear_inplace(F, hd) ==
  [F |-> Release([F EXCEPT ![hd].key_values_ = EmptyMap,
                           ![hd].deleted_keys_ = {},
                           ![hd].size_ = 0,
                           ![hd].parent_ = Null], F[hd].parent_),
   hd |-> hd]

\* clear(): the new fragment is made first, the assignment then releases the
\* old head
clear(F, hd) ==
  LET new_node == NewId(F)
  IN [F |-> Release([F EXCEPT ![new_node] = NewFragment(EmptyMap)], hd),
      hd |-> new_node]

\* faulty variant of erase: forgets to decrement size_
erase_keepsize(F, hd, k) ==
  IF ~contains_internal(F, hd, k) THEN [F |-> F, hd |-> hd, ret |-> FALSE]
  ELSE LET P == prepare_for_edit(F, hd)
           F1 == [P.F EXCEPT ![P.hd].key_values_ = [@ EXCEPT ![k] = Absent]]
           F2 == IF contains_internal(F1, P.hd, k)
                 THEN [F1 EXCEPT ![P.hd].deleted_keys_ = @ \cup {k}]
                 ELSE F1
       IN [F |-> F2, hd |-> P.hd, ret |-> TRUE]

\* faulty variant of erase: never records a tombstone
erase_notomb(F, hd, k) ==
  IF ~contains_internal(F, hd, k) THEN [F |-> F, hd |-> hd, ret |-> FALSE]
  ELSE LET P == prepare_for_edit(F, hd)
           F1 == [P.F EXCEPT ![P.hd].key_values_ = [@ EXCEPT ![k] = Absent]]
       IN [F |-> [F1 EXCEPT ![P.hd].size_ = @ - 1], hd |-> P.hd, ret |-> TRUE]

\* faulty variant of erase: edits the head without prepare_for_edit()
erase_noprepare(F, hd, k) ==
  IF ~contains_internal(F, hd, k) THEN [F |-> F, hd |-> hd, ret |-> FALSE]
  ELSE LET F1 == [F EXCEPT ![hd].key_values_ = [@ EXCEPT ![k] = Absent]]
           F2 == IF contains_internal(F1, hd, k)
                 THEN [F1 EXCEPT ![hd].deleted_keys_ = @ \cup {k}]
                 ELSE F1
       IN [F |-> [F2 EXCEPT ![hd].size_ = @ - 1], hd |-> hd, ret |-> TRUE]

\* erase(k)
erase(F, hd, k) ==
  IF ~contains_internal(F, hd, k) THEN [F |-> F, hd |-> hd, ret |-> FALSE]
  ELSE LET P == prepare_for_edit(F, hd)
           F1 == [P.F EXCEPT ![P.hd].key_values_ = [@ EXCEPT ![k] = Absent]]
           F2 == IF contains_internal(F1, P.hd, k)
                 THEN [F1 EXCEPT ![P.hd].deleted_keys_ = @ \cup {k}]
                 ELSE F1
       IN [F |-> [F2 EXCEPT ![P.hd].size_ = @ - 1], hd |-> P.hd, ret |-> TRUE]

\* faulty variant of detach_internal's loop: copies ancestor entries without
\* looking at the tombstones collected so far
RECURSIVE detach_walk_notomb(_, _, _, _)
detach_walk_notomb(F, p, kv, del) ==
  IF p = Null THEN [kv |-> kv, del |-> del]
  ELSE detach_walk_notomb(F, F[p].parent_,
         [k \in Keys |->
            IF contains_key(F[p].key_values_, k)
            THEN map_emplace(kv, k, F[p].key_values_[k])[k]
            ELSE kv[k]],
         del \cup F[p].deleted_keys_)

\* the loop of detach_internal() over the ancestors p: kv and del are the
\* head's key_values_ and deleted_keys_ so far
RECURSIVE detach_walk(_, _, _, _)
detach_walk(F, p, kv, del) ==
  IF p = Null THEN [kv |-> kv, del |-> del]
  ELSE detach_walk(F, F[p].parent_,
         [k \in Keys |->
            IF contains_key(F[p].key_values_, k) /\ k \notin del
            THEN map_emplace(kv, k, F[p].key_values_[k])[k]
            ELSE kv[k]],
         del \cup F[p].deleted_keys_)

\* faulty variant of detach_internal: merges the ancestors but forgets to
\* reset parent_
detach_internal_keepparent(F, hd) ==
  IF F[hd].parent_ = Null THEN [F |-> F, ret |-> FALSE]
  ELSE LET W == detach_walk(F, F[hd].parent_, F[hd].key_values_,
                            F[hd].deleted_keys_)
       IN [F |-> [F EXCEPT ![hd].key_values_ = W.kv,
                           ![hd].deleted_keys_ = {}],
           ret |-> TRUE]

\* detach_internal()
detach_internal(F, hd) ==
  IF F[hd].parent_ = Null THEN [F |-> F, ret |-> FALSE]
  ELSE LET W == detach_walk(F, F[hd].parent_, F[hd].key_values_,
                            F[hd].deleted_keys_)
           F1 == [F EXCEPT ![hd].key_values_ = W.kv,
                           ![hd].deleted_keys_ = {},
                           ![hd].parent_ = Null]
       IN [F |-> Release(F1, F[hd].parent_), ret |-> TRUE]

\* faulty variant of detach: merges into the head without prepare_for_edit()
detach_noprepare(F, hd) ==
  LET D == detach_internal(F, hd)
  IN [F |-> D.F, hd |-> hd, ret |-> D.ret]

\* detach()
detach(F, hd) ==
  LET P == prepare_for_edit(F, hd)
      D == detach_internal(P.F, P.hd)
  IN [F |-> D.F, hd |-> P.hd, ret |-> D.ret]

\* faulty variant of move(iter): moves out of the head without asking whether
\* the head is shared
move_iter_nounique(F, hd, iter, residue) ==
  IF iter.current = hd
  THEN [F |-> [F EXCEPT ![hd].key_values_[deref(F, iter)[1]] = residue],
        ret |-> deref(F, iter)[2], path |-> "moved"]
  ELSE [F |-> F, ret |-> deref(F, iter)[2], path |-> "copied"]

\* move(const const_iter_impl& iter): residue is the valid but unspecified
\* value of V that std::move leaves in the slot
move_iter(F, hd, iter, residue) ==
  IF unique(F, hd) /\ iter.current = hd
  THEN [F |-> [F EXCEPT ![hd].key_values_[deref(F, iter)[1]] = residue],
        ret |-> deref(F, iter)[2], path |-> "moved"]
  ELSE [F |-> F, ret |-> deref(F, iter)[2], path |-> "copied"]

\* move(const K& k)
move(F, hd, k, residue) ==
  LET iter == find(F, hd, k)
  IN IF is_end(iter) THEN [F |-> F, ret |-> KeyError, path |-> "threw"]
     ELSE move_iter(F, hd, iter, residue)

\* faulty variant of move_only(iter): tests the position only, not whether
\* the head is shared
move_only_iter_nounique(F, hd, iter, residue) ==
  IF iter.current = hd
  THEN [F |-> [F EXCEPT ![hd].key_values_[deref(F, iter)[1]] = residue],
        ret |-> deref(F, iter)[2], path |-> "moved"]
  ELSE [F |-> F, ret |-> EmptyOptional, path |-> "sentinel"]

\* move_only(const const_iter_impl& iter)
move_only_iter(F, hd, iter, residue) ==
  IF unique(F, hd) /\ iter.current = hd
  THEN [F |-> [F EXCEPT ![hd].key_values_[deref(F, iter)[1]] = residue],
        ret |-> deref(F, iter)[2], path |-> "moved"]
  ELSE [F |-> F, ret |-> EmptyOptional, path |-> "sentinel"]

\* move_only(const K& k)
move_only(F, hd, k, residue) ==
  LET iter == find(F, hd, k)
  IN IF is_end(iter) THEN [F |-> F, ret |-> KeyError, path |-> "threw"]
     ELSE move_only_iter(F, hd, iter, residue)

\* ---- the state machine: a program holding NumHandles lazy_map variables ----

\* bool results as numbers
Bit(b) == IF b THEN 1 ELSE 0

Alive(h) == head_[h] # Null

\* What one operation on handle h does to the program: the heap F and the
\* handles' heads H after it, what it returned (ret) and, for move and
\* move_only, which way it took (path).
Out(op, h, k, v, F, H, ret, path) ==
  [op |-> op, h |-> h, k |-> k, v |-> v, F |-> F, H |-> H, ret |-> ret,
   path |-> path]

SetHead(h, hd) == [head_ EXCEPT ![h] = hd]

\* lazy_map() and lazy_map(std::initializer_list<value_type> values)
ConstructOut(h, m) ==
  Out("construct", h, 0, 0, [frags EXCEPT ![NewId(frags)] = NewFragment(m)],
      SetHead(h, NewId(frags)), 0, "none")

\* the implicit copy constructor: auto h = g
CopyConstructOut(h, g) ==
  Out("copy", h, 0, 0, Acquire(frags, head_[g]), SetHead(h, head_[g]), 0, "none")

\* the implicit copy assignment: h = g
CopyAssignOut(h, g) ==
  Out("assign", h, 0, 0, Release(Acquire(frags, head_[g]), head_[h]),
      SetHead(h, head_[g]), 0, "none")

\* the implicit destructor: h goes out of scope
DestroyOut(h) ==
  Out("destroy", h, 0, 0, Release(frags, head_[h]), SetHead(h, Null), 0, "none")

InsertOrAssignOut(h, k, v) ==
  LET R == insert_or_assign(frags, head_[h], k, v)
  IN Out("insert_or_assign", h, k, v, R.F, SetHead(h, R.hd), 0, "none")

InsertOut(h, k, v) ==
  LET R == insert(frags, head_[h], k, v)
  IN Out("insert", h, k, v, R.F, SetHead(h, R.hd), Bit(R.ret), "none")

EmplaceOut(h, k, v) ==
  LET R == emplace(frags, head_[h], k, v)
  IN Out("emplace", h, k, v, R.F, SetHead(h, R.hd), Bit(R.ret), "none")

ClearOut(h) ==
  LET R == clear(frags, head_[h])
  IN Out("clear", h, 0, 0, R.F, SetHead(h, R.hd), 0, "none")

EraseOut(h, k) ==
  LET R == erase(frags, head_[h], k)
  IN Out("erase", h, k, 0, R.F, SetHead(h, R.hd), Bit(R.ret), "none")

DetachOut(h) ==
  LET R == detach(frags, head_[h])
  IN Out("detach", h, 0, 0, R.F, SetHead(h, R.hd), Bit(R.ret), "none")

\* V v = m.move(k)
MoveOut(h, k, residue) ==
  LET R == move(frags, head_[h], k, residue)
  IN Out("move", h, k, residue, R.F, head_, R.ret, R.path)

\* auto v = m.move_only(k)
MoveOnlyOut(h, k, residue) ==
  LET R == move_only(frags, head_[h], k, residue)
  IN Out("move_only", h, k, residue, R.F, head_, R.ret, R.path)

\* The plain std::unordered_map that a handle stands for, after the operation
\* r on it. move is not a plain-map operation: the reference keeps what the
\* move left in the slot when the value was moved out.
Reference(r, m) ==
  CASE r.op = "insert_or_assign" -> [m EXCEPT ![r.k] = r.v]
    [] r.op \in {"insert", "emplace"} -> map_emplace(m, r.k, r.v)
    [] r.op = "erase" -> [m EXCEPT ![r.k] = Absent]
    [] r.op = "clear" -> EmptyMap
    [] r.op \in {"move", "move_only"} ->
         IF r.path = "moved" THEN [m EXCEPT ![r.k] = r.v] ELSE m
    [] OTHER -> m

\* the program performs the operation r as one step: one more of its MaxOps
\* operations
Commit(r) ==
  /\ steps < MaxOps
  /\ steps' = steps + 1
  /\ frags' = r.F
  /\ head_' = r.H
  /\ thr' = thr

\* The program starts as the tests do: m1 built from a literal and
\* auto m2 = m1; in some runs m1.erase(1) has followed, as for m7 and m8 of
\* IteratorTest.
Init ==
  \E m \in Literals, erased \in BOOLEAN :
    LET F0 == [f \in FragIds |->
                 IF f = 1 THEN [NewFragment(m) EXCEPT !.use_count = 2]
                 ELSE NoFragment]
        R == IF erased THEN erase(F0, 1, 1)
             ELSE [F |-> F0, hd |-> 1, ret |-> FALSE]
    IN /\ frags = R.F
       /\ head_ = [h \in Handles |->
                     IF h = 1 THEN R.hd ELSE IF h = 2 THEN 1 ELSE Null]
       /\ ref = [h \in Handles |->
                   IF h = 1 THEN (IF R.ret THEN [m EXCEPT ![1] = Absent] ELSE m)
                   ELSE IF h = 2 THEN m ELSE EmptyMap]
       /\ steps = 0
       /\ thr = [h \in Handles |-> Idle]

\* a new variable takes the first unused handle slot
FirstUnused(h) == ~Alive(h) /\ \A x \in Handles : ~Alive(x) => h <= x

Construct(h, m) ==
  /\ FirstUnused(h)
  /\ Commit(ConstructOut(h, m))
  /\ ref' = [ref EXCEPT ![h] = m]

CopyConstruct(h, g) ==
  /\ FirstUnused(h)
  /\ Alive(g)
  /\ Commit(CopyConstructOut(h, g))
  /\ ref' = [ref EXCEPT ![h] = ref[g]]

CopyAssign(h, g) ==
  /\ Alive(h)
  /\ Alive(g)
  /\ Commit(CopyAssignOut(h, g))
  /\ ref' = [ref EXCEPT ![h] = ref[g]]

Destroy(h) ==
  /\ Alive(h)
  /\ Commit(DestroyOut(h))
  /\ ref' = [ref EXCEPT ![h] = EmptyMap]

InsertOrAssign(h, k, v) ==
  /\ Alive(h)
  /\ Commit(InsertOrAssignOut(h, k, v))
  /\ ref' = [ref EXCEPT ![h] = Reference(InsertOrAssignOut(h, k, v), @)]

Insert(h, k, v) ==
  /\ Alive(h)
  /\ Commit(InsertOut(h, k, v))
  /\ ref' = [ref EXCEPT ![h] = Reference(InsertOut(h, k, v), @)]

Emplace(h, k, v) ==
  /\ Alive(h)
  /\ Commit(EmplaceOut(h, k, v))
  /\ ref' = [ref EXCEPT ![h] = Reference(EmplaceOut(h, k, v), @)]

Clear(h) ==
  /\ Alive(h)
  /\ Commit(ClearOut(h))
  /\ ref' = [ref EXCEPT ![h] = Reference(ClearOut(h), @)]

Erase(h, k) ==
  /\ Alive(h)
  /\ Commit(EraseOut(h, k))
  /\ ref' = [ref EXCEPT ![h] = Reference(EraseOut(h, k), @)]

Detach(h) ==
  /\ Alive(h)
  /\ Commit(DetachOut(h))
  /\ UNCHANGED ref

Move(h, k, residue) ==
  /\ Alive(h)
  /\ Commit(MoveOut(h, k, residue))
  /\ ref' = [ref EXCEPT ![h] = Reference(MoveOut(h, k, residue), @)]

MoveOnly(h, k, residue) ==
  /\ Alive(h)
  /\ Commit(MoveOnlyOut(h, k, residue))
  /\ ref' = [ref EXCEPT ![h] = Reference(MoveOnlyOut(h, k, residue), @)]

Next ==
  \/ \E h \in Handles, m \in Literals : Construct(h, m)
  \/ \E h \in Handles, g \in Handles : CopyConstruct(h, g)
  \/ \E h \in Handles, g \in Handles : CopyAssign(h, g)
  \/ \E h \in Handles : Destroy(h)
  \/ \E h \in Handles, k \in Keys, v \in Vals : InsertOrAssign(h, k, v)
  \/ \E h \in Handles, k \in Keys, v \in Vals : Insert(h, k, v)
  \/ \E h \in Handles, k \in Keys, v \in Vals : Emplace(h, k, v)
  \/ \E h \in Handles : Clear(h)
  \/ \E h \in Handles, k \in Keys : Erase(h, k)
  \/ \E h \in Handles : Detach(h)
  \/ \E h \in Handles, k \in Keys, residue \in Vals : Move(h, k, residue)
  \/ \E h \in Handles, k \in Keys, residue \in Vals : MoveOnly(h, k, residue)

Spec == Init /\ [][Next]_vars

\* ---- type and structure ----
TypeOK ==
  /\ head_ \in [Handles -> FragIds \cup {Null}]
  /\ \A f \in FragIds :
       /\ frags[f].parent_ \in FragIds \cup {Null}
       /\ frags[f].key_values_ \in [Keys -> Vals \cup {Absent}]
       /\ frags[f].deleted_keys_ \subseteq Keys
       /\ frags[f].size_ \in 0..NumKeys
       /\ frags[f].use_count \in 0..(NumHandles + MaxOps)
  /\ \A h \in Handles : Alive(h) => frags[head_[h]].live
  /\ steps \in 0..MaxOps
  /\ Cardinality(FreeIds(frags)) >= MaxOps + 1 - steps

\* ---- vocabulary of the properties ----

Range(s) == {s[i] : i \in 1..Len(s)}

\* the fragments from f up to its root, nearest first
RECURSIVE Chain(_, _)
Chain(F, f) == IF f = Null THEN <<>> ELSE <<f>> \o Chain(F, F[f].parent_)

ChainSet(F, f) == Range(Chain(F, f))

\* The logical view rooted at fragment f: k is bound to the value of the
\* nearest fragment that binds it, provided no nearer fragment has a tombstone
\* or a binding for it; otherwise k is Absent.
LogicalView(F, f) ==
  LET c == Chain(F, f)
      Binds(i, k) == F[c[i]].key_values_[k] # Absent
      Nearest(k) == {i \in 1..Len(c) :
                       /\ Binds(i, k)
                       /\ \A j \in 1..(i - 1) :
                            ~Binds(j, k) /\ k \notin F[c[j]].deleted_keys_}
  IN [k \in Keys |->
        IF Nearest(k) = {} THEN Absent
        ELSE F[c[CHOOSE i \in Nearest(k) : TRUE]].key_values_[k]]

\* the (key, value) pairs of a map given as a function Keys -> value or Absent
Pairs(m) == {<<k, m[k]>> : k \in {x \in Keys : m[x] # Absent}}

\* everything a caller can observe of the map whose head is hd
Observables(F, hd) ==
  [contains |-> [k \in Keys |-> contains(F, hd, k)],
   at |-> [k \in Keys |-> at(F, hd, k)],
   size |-> size(F, hd),
   empty |-> empty(F, hd),
   items |-> Range(iterate(F, hd))]

\* the owners of fragment f: handles whose head it is and fragments whose
\* parent it is
Owners(F, H, f) ==
  Cardinality({h \in Handles : H[h] = f})
    + Cardinality({x \in FragIds : F[x].live /\ F[x].parent_ = f})

\* the program still has an operation to perform
Running == steps < MaxOps

\* P holds of what each mutating operation that the program may perform next
\* on handle h does
ForMutations(h, P(_)) ==
  Running =>
    /\ \A k \in Keys, v \in Vals :
         /\ P(InsertOrAssignOut(h, k, v))
         /\ P(InsertOut(h, k, v))
         /\ P(EmplaceOut(h, k, v))
    /\ \A k \in Keys : P(EraseOut(h, k))
    /\ P(ClearOut(h))
    /\ P(DetachOut(h))

\* likewise for the two move-out operations
ForMoves(h, P(_)) ==
  Running =>
    \A k \in Keys, residue \in Vals :
      P(MoveOut(h, k, residue)) /\ P(MoveOnlyOut(h, k, residue))

\* likewise for making, copying and dropping handles: a new variable
\* constructed or copied from g, a live handle x assigned from g or dropped
ForCopiesAndDrops(P(_)) ==
  Running =>
    /\ \A x \in Handles :
         FirstUnused(x) =>
           /\ \A m \in Literals : P(ConstructOut(x, m))
           /\ \A g \in Handles : Alive(g) => P(CopyConstructOut(x, g))
    /\ \A x \in Handles :
         Alive(x) =>
           /\ P(DestroyOut(x))
           /\ \A g \in Handles : Alive(g) => P(CopyAssignOut(x, g))

Inserters == {"insert", "emplace", "insert_or_assign"}

\* ---- C1 ----
\* C1: every handle behaves like its own plain map. In every reachable state,
\* for each live handle, contains, at, size, empty and the pairs yielded by
\* iteration (each once) are those of the reference map ref[h], which each
\* operation updates by its plain-map meaning and a copy copies; and every
\* insert, emplace or erase the program could perform next returns what the
\* reference map returns.
C1_RefinesPlainMap ==
  \A h \in Handles :
    Alive(h) =>
      LET hd == head_[h]
          it == iterate(frags, hd)
      IN /\ \A k \in Keys :
              /\ contains(frags, hd, k) = (ref[h][k] # Absent)
              /\ at(frags, hd, k) =
                   (IF ref[h][k] = Absent THEN KeyError ELSE ref[h][k])
         /\ size(frags, hd) = MapSize(ref[h])
         /\ empty(frags, hd) = (MapSize(ref[h]) = 0)
         /\ Range(it) = Pairs(ref[h])
         /\ Len(it) = MapSize(ref[h])
         /\ \A k \in Keys, v \in Vals :
              /\ InsertOut(h, k, v).ret = Bit(ref[h][k] = Absent)
              /\ EmplaceOut(h, k, v).ret = Bit(ref[h][k] = Absent)
         /\ \A k \in Keys : EraseOut(h, k).ret = Bit(ref[h][k] # Absent)

\* two live handles with different contents share a fragment, one of them by
\* a chain of depth 2 whose fragments all bind or delete something
C1_Witness ==
  \E h \in Handles, g \in Handles :
    /\ h # g /\ Alive(h) /\ Alive(g)
    /\ ref[h] # ref[g]
    /\ head_[g] \in ChainSet(frags, head_[h])
    /\ get_depth(frags, head_[h]) = 2
    /\ \E k \in Keys : ref[h][k] # Absent /\ ref[g][k] # Absent /\ ref[h][k] # ref[g][k]

\* ---- C2 ----
\* C2: isolation. No mutating operation on a handle changes any observable
\* result (contains, at, size, empty, iterated pairs) of any other live
\* handle, whatever fragments the two share.
C2_Isolation ==
  \A g \in Handles :
    Alive(g) =>
      LET before == Observables(frags, head_[g])
          Untouched(r) ==
            /\ r.H[g] = head_[g]
            /\ r.F[head_[g]].live
            /\ Observables(r.F, r.H[g]) = before
      IN \A h \in Handles : (h # g /\ Alive(h)) => ForMutations(h, Untouched)

\* after a copy and an insertion two handles observe different contents and
\* still share a fragment: the head of the one the program goes on to mutate
\* is an ancestor of the other's head, which holds the inserted binding
C2_Witness ==
  \E h \in Handles, g \in Handles :
    /\ h # g /\ Alive(h) /\ Alive(g)
    /\ Running
    /\ ~unique(frags, head_[h])
    /\ head_[h] \in ChainSet(frags, head_[g])
    /\ \E k \in Keys : contains_key(frags[head_[g]].key_values_, k)
    /\ Observables(frags, head_[g]) # Observables(frags, head_[h])

\* ---- C3 ----
\* C3: iteration from begin() to end() yields no key twice, and yields exactly
\* the pairs of the logical view: each key whose nearest binding is not
\* preceded by a tombstone, with the value of that nearest binding.
C3_IterationExact ==
  \A h \in Handles :
    Alive(h) =>
      LET it == iterate(frags, head_[h])
      IN /\ \A i \in 1..Len(it), j \in 1..Len(it) : i # j => it[i][1] # it[j][1]
         /\ Range(it) = Pairs(LogicalView(frags, head_[h]))

\* a chain of depth 2 where a key bound in the root is deleted by a tombstone
\* of the middle fragment, while the head binds another key
C3_Witness ==
  \E h \in Handles, k \in Keys :
    /\ Alive(h)
    /\ LET c == Chain(frags, head_[h])
       IN /\ Len(c) >= 3
          /\ frags[c[1]].key_values_[k] = Absent
          /\ k \in frags[c[2]].deleted_keys_
          /\ frags[c[3]].key_values_[k] # Absent
          /\ \E j \in Keys : frags[c[1]].key_values_[j] # Absent
    /\ \A e \in Range(iterate(frags, head_[h])) : e[1] # k

\* ---- C4 ----
\* C4: size consistency. Every live fragment's size_ is the number of keys
\* its chain resolves to a value, and size() of every handle is the number of
\* distinct keys its iteration yields.
C4_SizeConsistent ==
  /\ \A f \in FragIds :
       frags[f].live =>
         frags[f].size_ =
           Cardinality({k \in Keys : LogicalView(frags, f)[k] # Absent})
  /\ \A h \in Handles :
       Alive(h) =>
         size(frags, head_[h]) =
           Cardinality({e[1] : e \in Range(iterate(frags, head_[h]))})

\* a head with a tombstone and a binding of its own over an ancestor of a
\* different, non-zero size
C4_Witness ==
  \E h \in Handles :
    /\ Alive(h)
    /\ frags[head_[h]].deleted_keys_ # {}
    /\ \E k \in Keys : contains_key(frags[head_[h]].key_values_, k)
    /\ frags[head_[h]].parent_ # Null
    /\ frags[frags[head_[h]].parent_].size_ > frags[head_[h]].size_
    /\ frags[head_[h]].size_ > 0

\* ---- C5 ----
\* C5: read transparency. For every live handle and key, contains(k), find(k)
\* not being end and at(k) not failing are equivalent; when they hold, find(k)
\* dereferences to (k, at(k)), which is the binding of the logical view.
C5_ReadTransparency ==
  \A h \in Handles, k \in Keys :
    Alive(h) =>
      LET hd == head_[h]
          iter == find(frags, hd, k)
      IN /\ contains(frags, hd, k) = ~is_end(iter)
         /\ ~is_end(iter) = (at(frags, hd, k) # KeyError)
         /\ contains(frags, hd, k) = (LogicalView(frags, hd)[k] # Absent)
         /\ ~is_end(iter) =>
              /\ deref(frags, iter) = <<k, at(frags, hd, k)>>
              /\ at(frags, hd, k) = LogicalView(frags, hd)[k]

\* for one handle a key is hidden by a tombstone although an ancestor binds
\* it and another key is found in an ancestor, while another handle finds the
\* hidden key in its own head, which shadows the same ancestor
C5_Witness ==
  \E h \in Handles, g \in Handles, k \in Keys, j \in Keys :
    /\ Alive(h) /\ Alive(g)
    /\ k \in frags[head_[h]].deleted_keys_
    /\ ~contains(frags, head_[h], k)
    /\ ~is_end(find(frags, head_[h], j))
    /\ find(frags, head_[h], j).current # head_[h]
    /\ find(frags, head_[g], k).current = head_[g]
    /\ frags[head_[g]].parent_ = frags[head_[h]].parent_

\* ---- C6 ----
\* C6: detach preservation and idempotence. Whenever detach() returns true on
\* a handle, the handle is afterwards detached with depth 0, a second detach()
\* right away returns false, the handle observes the same contents as before
\* the call, and so does every other live handle.
C6_DetachPreserves ==
  LET before == [g \in Handles |->
                   IF Alive(g) THEN Observables(frags, head_[g]) ELSE <<>>]
  IN \A h \in Handles :
       Alive(h) =>
         LET r == DetachOut(h)
         IN r.ret = 1 =>
              /\ is_detached(r.F, r.H[h])
              /\ get_depth(r.F, r.H[h]) = 0
              /\ ~detach(r.F, r.H[h]).ret
              /\ Observables(r.F, r.H[h]) = before[h]
              /\ \A g \in Handles :
                   (g # h /\ Alive(g)) =>
                     /\ r.H[g] = head_[g]
                     /\ Observables(r.F, r.H[g]) = before[g]

\* detach() returns true on a handle of depth 2 whose chain holds a tombstone
\* over a bound key, while another live handle holds different contents
C6_Witness ==
  \E h \in Handles, g \in Handles :
    /\ h # g /\ Alive(h) /\ Alive(g)
    /\ DetachOut(h).ret = 1
    /\ get_depth(frags, head_[h]) = 2
    /\ \E f \in ChainSet(frags, head_[h]) :
         \E k \in frags[f].deleted_keys_ : ~contains(frags, head_[h], k)
    /\ size(frags, head_[h]) > 0
    /\ Observables(frags, head_[g]) # Observables(frags, head_[h])

\* ---- C7 ----
\* C7: detach() returns false whenever the head has no parent just before the
\* call, shared or not, and returns true only when the head had a parent.
C7_DetachFalseWhenDetached ==
  \A h \in Handles :
    Alive(h) => (is_detached(frags, head_[h]) <=> DetachOut(h).ret = 0)

\* ---- C8 ----
\* C8: tombstone correctness. A successful erase(k) leaves k not contained
\* (at(k) fails, k is not iterated), also when an ancestor binds k. While a
\* handle does not contain k, no operation on another key or another handle,
\* no copy and no drop makes k contained: only an insert, emplace or
\* insert_or_assign of k on that handle does, and the handle then resolves k
\* to the inserted value. (Assigning another map to the handle replaces its
\* contents as a whole and is not an operation the property is about.)
C8_TombstoneCorrect ==
  \A h \in Handles, k \in Keys :
    Alive(h) =>
      LET Erased(r) ==
            (r.h = h /\ r.op = "erase" /\ r.k = k /\ contains(frags, head_[h], k)) =>
              /\ r.ret = 1
              /\ ~contains(r.F, r.H[h], k)
              /\ at(r.F, r.H[h], k) = KeyError
              /\ \A e \in Range(iterate(r.F, r.H[h])) : e[1] # k
          Reinserted(r) ==
            (/\ r.h = h /\ r.k = k
             /\ r.op = "insert_or_assign" \/ (r.op \in Inserters /\ r.ret = 1)) =>
              /\ contains(r.F, r.H[h], k)
              /\ at(r.F, r.H[h], k) = r.v
          StaysAbsent(r) ==
            (/\ ~contains(frags, head_[h], k)
             /\ ~(r.h = h /\ r.op \in Inserters /\ r.k = k)
             /\ ~(r.h = h /\ r.op \in {"assign", "destroy"})) =>
              ~contains(r.F, r.H[h], k)
          Kept(r) == Erased(r) /\ Reinserted(r) /\ StaysAbsent(r)
      IN /\ \A g \in Handles :
              Alive(g) => ForMutations(g, Kept) /\ ForMoves(g, StaysAbsent)
         /\ ForCopiesAndDrops(StaysAbsent)

\* a handle's head holds a tombstone for a key that an ancestor binds, and
\* after the erase another live handle has bound that key in its own head
C8_Witness ==
  \E h \in Handles, g \in Handles, k \in Keys :
    /\ h # g /\ Alive(h) /\ Alive(g)
    /\ k \in frags[head_[h]].deleted_keys_
    /\ \E f \in ChainSet(frags, frags[head_[h]].parent_) :
         frags[f].key_values_[k] # Absent
    /\ ~contains(frags, head_[h], k)
    /\ frags[head_[g]].parent_ # Null
    /\ frags[head_[g]].key_values_[k] # Absent
    /\ Running

\* ---- C9 ----
\* C9: move-out uniqueness. For a live key, move(k) and move_only(k) move the
\* value out exactly when the head has a single owner and binds k in its own
\* locals; otherwise move(k) returns a copy of the value and move_only(k)
\* returns the empty optional.
C9_MoveOutUniqueness ==
  \A h \in Handles, k \in Keys :
    (Alive(h) /\ contains(frags, head_[h], k)) =>
      LET hd == head_[h]
          value == at(frags, hd, k)
          Sole == /\ Owners(frags, head_, hd) = 1
                  /\ frags[hd].key_values_[k] # Absent
      IN \A residue \in Vals :
           \A r \in {MoveOut(h, k, residue), MoveOnlyOut(h, k, residue)} :
             /\ (r.path = "moved") = Sole
             /\ Sole => r.ret = value
             /\ (~Sole /\ r.op = "move") =>
                  /\ r.path = "copied"
                  /\ r.ret = value
             /\ (~Sole /\ r.op = "move_only") =>
                  /\ r.path = "sentinel"
                  /\ r.ret = EmptyOptional

\* after mutations, a handle whose head binds a key locally shares that head
\* with another handle, so move_only returns the empty optional and move copies
C9_Witness ==
  \E h \in Handles, g \in Handles, k \in Keys :
    /\ h # g /\ head_[h] # Null /\ head_[g] = head_[h]
    /\ frags[head_[h]].parent_ # Null
    /\ frags[head_[h]].key_values_[k] # Absent
    /\ \A residue \in Vals :
         /\ MoveOnlyOut(h, k, residue).path = "sentinel"
         /\ MoveOut(h, k, residue).path = "copied"

\* ---- C10 ----
\* C10: for a live key, move_only(k) returns the empty optional and move(k)
\* copies only if another live handle can reach the fragment that holds the
\* key's binding.
C10_FallbackOnlyWhenShared ==
  \A h \in Handles :
    Alive(h) =>
      \A k \in Keys, residue \in Vals :
      \A r \in {MoveOut(h, k, residue), MoveOnlyOut(h, k, residue)} :
        r.path \in {"copied", "sentinel"} =>
          \E g \in Handles :
            /\ g # h
            /\ Alive(g)
            /\ find(frags, head_[h], r.k).current \in ChainSet(frags, head_[g])

\* the fragments that exist in heap F
Live(F) == {f \in FragIds : F[f].live}

\* what every handle observes in the current state
ObservedNow ==
  [g \in Handles |-> IF Alive(g) THEN Observables(frags, head_[g]) ELSE <<>>]

\* ---- C11 ----
\* C11: move(k) and move_only(k) leave the handle's head as it was. On the
\* fallback path (copy, empty optional) nothing at all is written, so the
\* key is still contained and at(k) still returns the original value. On the
\* move path nothing is allocated, the handle's key set, size, depth and
\* tombstones are as before, only the slot of k in the head changes, and
\* every other handle observes what it did before.
C11_MoveKeepsContents ==
  \A h \in Handles :
    Alive(h) =>
      LET hd == head_[h]
          before == ObservedNow
          Kept(r) ==
            /\ r.H = head_
            /\ r.path \in {"threw", "copied", "sentinel"} => r.F = frags
            /\ r.path \in {"copied", "sentinel"} =>
                 /\ contains(r.F, hd, r.k)
                 /\ at(r.F, hd, r.k) = before[h].at[r.k]
            /\ r.path = "moved" =>
                 /\ Live(r.F) = Live(frags)
                 /\ \A x \in Keys : contains(r.F, hd, x) = before[h].contains[x]
                 /\ contains(r.F, hd, r.k)
                 /\ size(r.F, hd) = before[h].size
                 /\ get_depth(r.F, hd) = get_depth(frags, hd)
                 /\ r.F[hd].deleted_keys_ = frags[hd].deleted_keys_
                 /\ r.ret = before[h].at[r.k]
                 /\ \A x \in Keys \ {r.k} : at(r.F, hd, x) = before[h].at[x]
                 /\ \A g \in Handles :
                      (g # h /\ Alive(g)) =>
                        Observables(r.F, r.H[g]) = before[g]
      IN ForMoves(h, Kept)

\* the program goes on with a handle whose unique head shadows, with a binding
\* of another value, a key of an ancestor that another handle still reads: one
\* key is moved out of the head, the other is found in the shared ancestor
C11_Witness ==
  \E h \in Handles, g \in Handles, k \in Keys, j \in Keys :
    /\ h # g /\ Alive(h) /\ Alive(g)
    /\ Running
    /\ head_[g] \in ChainSet(frags, frags[head_[h]].parent_)
    /\ contains(frags, head_[g], k)
    /\ at(frags, head_[g], k) # at(frags, head_[h], k)
    /\ \A residue \in Vals :
         /\ MoveOnlyOut(h, k, residue).path = "moved"
         /\ MoveOut(h, j, residue).path = "copied"

\* ---- C12 ----
\* C12: at(k), move(k) and move_only(k) throw exactly when k is not in the
\* handle's logical view; a call that throws leaves the heap and all handles
\* as they were; contains, find and size always give a result, and
\* insert, emplace, insert_or_assign, erase, clear and detach never throw and
\* leave the handle with a head.
C12_KeyNotFoundExact ==
  \A h \in Handles :
    Alive(h) =>
      LET hd == head_[h]
          view == LogicalView(frags, hd)
          Thrown(r) ==
            /\ (r.path = "threw") = (view[r.k] = Absent)
            /\ (r.ret = KeyError) = (view[r.k] = Absent)
            /\ r.path = "threw" => (r.F = frags /\ r.H = head_)
          Total(r) ==
            /\ r.ret \in {0, 1}
            /\ r.H[h] # Null
            /\ r.F[r.H[h]].live
      IN /\ \A k \in Keys :
              /\ (at(frags, hd, k) = KeyError) = (view[k] = Absent)
              /\ contains(frags, hd, k) \in BOOLEAN
              /\ LET iter == find(frags, hd, k)
                 IN is_end(iter) \/ deref(frags, iter)[1] = k
         /\ size(frags, hd) \in 0..NumKeys
         /\ ForMoves(h, Thrown)
         /\ ForMutations(h, Total)

\* the program goes on with a handle whose head hides a key of an ancestor by
\* a tombstone and binds another key itself
C12_Witness ==
  \E h \in Handles, k \in Keys, j \in Keys :
    /\ Alive(h)
    /\ Running
    /\ k \in frags[head_[h]].deleted_keys_
    /\ contains_key(frags[frags[head_[h]].parent_].key_values_, k)
    /\ contains_key(frags[head_[h]].key_values_, j)
    /\ at(frags, head_[h], k) = KeyError
    /\ \A residue \in Vals : MoveOut(h, k, residue).path = "threw"

\* ---- C13 ----
\* C13: whenever the program goes on with a clear(), it leaves the handle
\* with size 0, depth 0, no parent and no key contained or iterated, whether
\* its head was shared or not, and every other handle keeps its head and
\* observes what it did before.
C13_ClearFrame ==
  LET before == ObservedNow
  IN Running =>
       \A h \in Handles :
         Alive(h) =>
           LET r == ClearOut(h)
               hd == r.H[h]
           IN /\ size(r.F, hd) = 0
              /\ empty(r.F, hd)
              /\ get_depth(r.F, hd) = 0
              /\ is_detached(r.F, hd)
              /\ \A k \in Keys : ~contains(r.F, hd, k)
              /\ iterate(r.F, hd) = <<>>
              /\ \A g \in Handles :
                   (g # h /\ Alive(g)) =>
                     /\ r.H[g] = head_[g]
                     /\ Observables(r.F, r.H[g]) = before[g]

\* the program goes on with a handle of depth 1 that is not empty and shares
\* its head with another handle
C13_Witness ==
  \E h \in Handles, g \in Handles :
    /\ h # g /\ Alive(h)
    /\ Running
    /\ head_[g] = head_[h]
    /\ get_depth(frags, head_[h]) >= 1
    /\ size(frags, head_[h]) > 0
    /\ frags[head_[h]].deleted_keys_ # {}

\* ---- C15 ----
\* C15: after insert_or_assign, clear, detach, or an insert, emplace or erase
\* that returned true, the handle's head has use count 1: no other handle has
\* it as head and no fragment has it as parent. (In every reachable state the
\* use count of a fragment is the number of handles and fragments that point
\* to it.)
C15_HeadUniqueAfterMutation ==
  /\ \A f \in Live(frags) : frags[f].use_count = Owners(frags, head_, f)
  /\ \A h \in Handles :
       Alive(h) =>
         LET Unique(r) ==
               (r.op \in {"insert_or_assign", "clear", "detach"} \/ r.ret = 1) =>
                 /\ r.F[r.H[h]].use_count = 1
                 /\ \A g \in Handles \ {h} : r.H[g] # r.H[h]
                 /\ \A f \in Live(r.F) : r.F[f].parent_ # r.H[h]
         IN ForMutations(h, Unique)

\* the program goes on with two handles that have the same head, which has a
\* parent
C15_Witness ==
  \E h \in Handles, g \in Handles :
    /\ h # g /\ Alive(h)
    /\ Running
    /\ head_[g] = head_[h]
    /\ frags[head_[h]].use_count = 2
    /\ frags[head_[h]].parent_ # Null

\* ---- C16 ----
\* C16: copy-on-write discipline. prepare_for_edit() on a shared head makes
\* one new fragment, with the old head as parent, no entries, no tombstones
\* and the old head's size, and makes it the head; on a uniquely owned head it
\* does nothing. So insert_or_assign and a successful insert, emplace or erase
\* on a shared head allocate exactly one fragment and the depth grows by 1,
\* and on a uniquely owned head they allocate nothing and the depth stays.
C16_CopyOnWrite ==
  \A h \in Handles :
    Alive(h) =>
      LET hd == head_[h]
          P == prepare_for_edit(frags, hd)
          Cow(r) ==
            (r.op = "insert_or_assign"
               \/ (r.op \in {"insert", "emplace", "erase"} /\ r.ret = 1)) =>
              IF unique(frags, hd)
              THEN /\ r.H[h] = hd
                   /\ Live(r.F) = Live(frags)
                   /\ get_depth(r.F, r.H[h]) = get_depth(frags, hd)
              ELSE /\ r.H[h] \notin Live(frags)
                   /\ Live(r.F) = Live(frags) \cup {r.H[h]}
                   /\ r.F[r.H[h]].parent_ = hd
                   /\ r.F[hd] = frags[hd]
                   /\ get_depth(r.F, r.H[h]) = get_depth(frags, hd) + 1
                   /\ \A x \in Keys \ {r.k} :
                        /\ ~contains_key(r.F[r.H[h]].key_values_, x)
                        /\ x \notin r.F[r.H[h]].deleted_keys_
      IN /\ unique(frags, hd) => (P.F = frags /\ P.hd = hd)
         /\ ~unique(frags, hd) =>
              /\ P.hd \notin Live(frags)
              /\ Live(P.F) = Live(frags) \cup {P.hd}
              /\ \A f \in Live(frags) : P.F[f] = frags[f]
              /\ P.F[P.hd].parent_ = hd
              /\ P.F[P.hd].key_values_ = EmptyMap
              /\ P.F[P.hd].deleted_keys_ = {}
              /\ P.F[P.hd].size_ = frags[hd].size_
              /\ P.F[P.hd].use_count = 1
         /\ ForMutations(h, Cow)

\* the program goes on with one handle whose head is shared and not empty and
\* another whose head is uniquely owned, holds an entry and has the first
\* one's head as parent
C16_Witness ==
  \E h \in Handles, g \in Handles :
    /\ Alive(h) /\ Alive(g)
    /\ Running
    /\ ~unique(frags, head_[h])
    /\ size(frags, head_[h]) > 0
    /\ unique(frags, head_[g])
    /\ frags[head_[g]].parent_ = head_[h]
    /\ frags[head_[g]].key_values_ # EmptyMap

\* ---- C17 ----
\* C17: a no-op edit changes nothing. Whenever the program goes on with one,
\* insert and emplace of a contained key and erase of a key that is not
\* contained return false and leave the whole heap (fragments, use counts)
\* and every handle's head as they were.
C17_NoOpEdit ==
  Running =>
    \A h \in Handles, k \in Keys :
      Alive(h) =>
        IF contains(frags, head_[h], k)
        THEN \A v \in Vals :
               \A r \in {InsertOut(h, k, v), EmplaceOut(h, k, v)} :
                 r.ret = 0 /\ r.F = frags /\ r.H = head_
        ELSE LET r == EraseOut(h, k)
             IN r.ret = 0 /\ r.F = frags /\ r.H = head_

\* the program goes on with two handles that have the same head, which finds
\* one key in an ancestor and hides another by a tombstone
C17_Witness ==
  \E h \in Handles, g \in Handles, k \in Keys, j \in Keys :
    /\ h # g /\ Alive(h) /\ head_[g] = head_[h]
    /\ Running
    /\ find(frags, head_[h], k).current = frags[head_[h]].parent_
    /\ j \in frags[head_[h]].deleted_keys_
    /\ ~contains(frags, head_[h], j)
    /\ InsertOut(h, k, 1).ret = 0
    /\ EraseOut(h, j).ret = 0

\* ---- C18 ----
\* the members of a fragment that operations write
Content(x) ==
  [parent_ |-> x.parent_, key_values_ |-> x.key_values_,
   deleted_keys_ |-> x.deleted_keys_, size_ |-> x.size_]

\* C18: shared fragments are immutable. Whatever operation the program
\* performs next on a handle, a fragment that exists before and after it has
\* its parent, entries, tombstones and size changed only if it was the head
\* of that handle with use count 1 (no other handle's head, no fragment's
\* parent); copying and dropping handles change no fragment's members.
C18_SharedImmutable ==
  /\ \A h \in Handles :
       Alive(h) =>
         LET Written(r) ==
               \A f \in Live(frags) \cap Live(r.F) :
                 Content(r.F[f]) # Content(frags[f]) =>
                   /\ f = head_[h]
                   /\ unique(frags, f)
                   /\ Owners(frags, head_, f) = 1
         IN ForMutations(h, Written) /\ ForMoves(h, Written)
  /\ LET Same(r) ==
           \A f \in Live(frags) \cap Live(r.F) :
             Content(r.F[f]) = Content(frags[f])
     IN ForCopiesAndDrops(Same)

\* the program goes on while one fragment is the parent of two others, each
\* the head of a handle
C18_Witness ==
  \E h \in Handles, g \in Handles :
    /\ Alive(h) /\ Alive(g)
    /\ Running
    /\ head_[h] # head_[g]
    /\ frags[head_[h]].parent_ # Null
    /\ frags[head_[h]].parent_ = frags[head_[g]].parent_

\* ---- C19 ----
\* C19: tombstone well-formedness. In every reachable state, for every live
\* fragment: no key is both in key_values_ and in deleted_keys_, every key of
\* deleted_keys_ has an entry in the key_values_ of a strict ancestor, and a
\* fragment without parent has no tombstones.
C19_TombstonesWellFormed ==
  \A f \in Live(frags) :
    /\ \A k \in frags[f].deleted_keys_ :
         /\ ~contains_key(frags[f].key_values_, k)
         /\ \E a \in ChainSet(frags, frags[f].parent_) :
              contains_key(frags[a].key_values_, k)
    /\ frags[f].parent_ = Null => frags[f].deleted_keys_ = {}

\* a handle's head has no parent and no tombstone, still holds an entry and
\* lacks a key that it lost by an erase and that another handle contains
C19_Witness ==
  \E h \in Handles, g \in Handles, k \in Keys :
    /\ h # g /\ Alive(h) /\ Alive(g)
    /\ frags[head_[h]].parent_ = Null
    /\ frags[head_[h]].key_values_ # EmptyMap
    /\ frags[head_[h]].deleted_keys_ = {}
    /\ ~contains(frags, head_[h], k)
    /\ contains(frags, head_[g], k)

\* ---- C20 ----
\* follows parent_ from f for at most n steps
RECURSIVE ReachesRoot(_, _, _)
ReachesRoot(F, f, n) ==
  IF f = Null THEN TRUE
  ELSE IF n = 0 THEN FALSE
  ELSE ReachesRoot(F, F[f].parent_, n - 1)

\* C20: the parent relation has no cycle. In every reachable state the parent
\* of a live fragment is a live fragment or null and following parent_ from
\* any live fragment reaches null within as many steps as there are
\* fragments, so get_depth() is below that number and iteration ends. Whatever
\* operation the program performs next, a fragment made by it has as parent
\* null or a fragment that existed before, and a fragment that existed before
\* has its parent changed only by detach() on the handle whose head it is,
\* which sets it to null.
C20_NoParentCycle ==
  /\ \A f \in Live(frags) :
       /\ frags[f].parent_ \in Live(frags) \cup {Null}
       /\ ReachesRoot(frags, f, Cardinality(Live(frags)))
  /\ \A h \in Handles :
       Alive(h) =>
         /\ get_depth(frags, head_[h]) < Cardinality(Live(frags))
         /\ Len(iterate(frags, head_[h])) <= NumKeys
  /\ LET Parents(r) ==
           /\ \A f \in Live(r.F) \ Live(frags) :
                r.F[f].parent_ \in Live(frags) \cup {Null}
           /\ \A f \in Live(frags) \cap Live(r.F) :
                r.F[f].parent_ # frags[f].parent_ =>
                  /\ r.op = "detach"
                  /\ f = head_[r.h]
                  /\ r.F[f].parent_ = Null
           /\ r.op = "detach" => r.F[r.H[r.h]].parent_ = Null
     IN /\ \A h \in Handles :
             Alive(h) => ForMutations(h, Parents) /\ ForMoves(h, Parents)
        /\ ForCopiesAndDrops(Parents)

\* the program goes on with two handles whose chains have no fragment in
\* common, one of them of depth 1
C20_Witness ==
  \E h \in Handles, g \in Handles :
    /\ Alive(h) /\ Alive(g)
    /\ Running
    /\ ChainSet(frags, head_[h]) \cap ChainSet(frags, head_[g]) = {}
    /\ get_depth(frags, head_[h]) = 1
    /\ size(frags, head_[g]) > size(frags, head_[h])

\* ---- the operations step by step: one thread for each handle ----
\* Each handle is used by one thread only (thread h uses handle h). The steps
\* of different threads interleave. The use count is an atomic counter: the
\* test head_.unique(), an increment and a decrement are one step each. The
\* accesses to the members of a Fragment are not atomic: they last from a
\* Begin step to an End step.

\* insert_or_assign after prepare_for_edit(): the writes to the head
insert_or_assign_write(F, hd, k, v) ==
  LET inc == IF contains_internal(F, hd, k) THEN 0 ELSE 1
  IN [F EXCEPT ![hd].size_ = @ + inc,
               ![hd].deleted_keys_ = @ \ {k},
               ![hd].key_values_ = put_key_value(@, k, v)]

\* detach_internal without the release of the parent that the assignment
\* head_->parent_ = nullptr ends with
detach_internal_write(F, hd) ==
  LET W == detach_walk(F, F[hd].parent_, F[hd].key_values_, F[hd].deleted_keys_)
  IN [F EXCEPT ![hd].key_values_ = W.kv,
               ![hd].deleted_keys_ = {},
               ![hd].parent_ = Null]

\* std::move(to_non_const_iter(head_->key_values_, iter.it_)->second)
move_write(F, hd, k, residue) == [F EXCEPT ![hd].key_values_[k] = residue]

\* faulty variant of the test in StartEdit: takes a use count of 2 for unique
tested_atmost2(F, hd) == IF F[hd].use_count <= 2 THEN "own" ELSE "shared"

\* the outcome of if (not head_.unique()) in prepare_for_edit()
tested(F, hd) == IF unique(F, hd) THEN "own" ELSE "shared"

Step(h, t) == thr' = [thr EXCEPT ![h] = t]

Started == steps < MaxOps /\ steps' = steps + 1

\* insert_or_assign(k, v) and detach() start with prepare_for_edit(), which
\* starts with the test of head_.unique()
StartEdit(h, op, k, v) ==
  /\ thr[h].pc = "idle" /\ Alive(h)
  /\ Started
  /\ Step(h, [pc |-> tested(frags, head_[h]), op |-> op, k |-> k, v |-> v,
              rel |-> Null])
  /\ UNCHANGED <<frags, head_, ref>>

\* move(k) of a contained key: find(k), then the test of move(iter); the
\* fallback reads the value to copy it
StartMove(h, k, residue) ==
  /\ thr[h].pc = "idle" /\ Alive(h)
  /\ contains(frags, head_[h], k)
  /\ Started
  /\ Step(h, [pc |-> IF unique(frags, head_[h])
                        /\ find(frags, head_[h], k).current = head_[h]
                     THEN "own" ELSE "reading",
              op |-> "move", k |-> k, v |-> residue, rel |-> Null])
  /\ UNCHANGED <<frags, head_, ref>>

\* prepare_for_edit() when the test found the head shared: the new fragment
\* takes over the handle's reference to the old head and reads its size_
Allocate(h) ==
  /\ thr[h].pc = "shared"
  /\ LET P == [F |-> [frags EXCEPT ![NewId(frags)] = ChildFragment(frags, head_[h])],
               hd |-> NewId(frags)]
     IN /\ frags' = P.F
        /\ head_' = [head_ EXCEPT ![h] = P.hd]
  /\ Step(h, [thr[h] EXCEPT !.pc = "own"])
  /\ UNCHANGED <<ref, steps>>

\* the thread starts to write to the members of its head
BeginWrite(h) ==
  /\ thr[h].pc = "own"
  /\ Step(h, [thr[h] EXCEPT !.pc = "writing"])
  /\ UNCHANGED <<frags, head_, ref, steps>>

\* the writes are done; detach() goes on to release the parent
EndWrite(h) ==
  /\ thr[h].pc = "writing"
  /\ LET t == thr[h]
         hd == head_[h]
     IN /\ frags' = CASE t.op = "insert_or_assign" ->
                           insert_or_assign_write(frags, hd, t.k, t.v)
                      [] t.op = "detach" ->
                           IF frags[hd].parent_ = Null THEN frags
                           ELSE detach_internal_write(frags, hd)
                      [] OTHER -> move_write(frags, hd, t.k, t.v)
        /\ IF t.op = "detach" /\ frags[hd].parent_ # Null
           THEN Step(h, [t EXCEPT !.pc = "releasing", !.rel = frags[hd].parent_])
           ELSE Step(h, Idle)
  /\ UNCHANGED <<head_, ref, steps>>

\* a read-only operation (contains, at, find, iteration) starts to read the
\* fragments of the handle's chain
BeginRead(h) ==
  /\ thr[h].pc = "idle" /\ Alive(h)
  /\ Started
  /\ Step(h, [Idle EXCEPT !.pc = "reading", !.op = "read"])
  /\ UNCHANGED <<frags, head_, ref>>

EndRead(h) ==
  /\ thr[h].pc = "reading"
  /\ Step(h, Idle)
  /\ UNCHANGED <<frags, head_, ref, steps>>

\* auto h = g, made by the thread of g and handed to a new thread
ThreadCopy(h, g) ==
  /\ FirstUnused(h) /\ thr[h].pc = "idle"
  /\ thr[g].pc = "idle" /\ Alive(g)
  /\ Started
  /\ frags' = Acquire(frags, head_[g])
  /\ head_' = [head_ EXCEPT ![h] = head_[g]]
  /\ UNCHANGED <<ref, thr>>

\* the handle goes out of scope: ~shared_ptr has a reference to give up
Drop(h) ==
  /\ thr[h].pc = "idle" /\ Alive(h)
  /\ Started
  /\ head_' = [head_ EXCEPT ![h] = Null]
  /\ Step(h, [Idle EXCEPT !.pc = "releasing", !.op = "drop", !.rel = head_[h]])
  /\ UNCHANGED <<frags, ref>>

\* the atomic decrement of the use count; the thread that takes it to 0
\* destroys the fragment
ReleaseStep(h) ==
  /\ thr[h].pc = "releasing"
  /\ frags' = [frags EXCEPT ![thr[h].rel].use_count = @ - 1]
  /\ IF frags[thr[h].rel].use_count > 1
     THEN Step(h, Idle)
     ELSE Step(h, [thr[h] EXCEPT !.pc = "destroying"])
  /\ UNCHANGED <<head_, ref, steps>>

\* ~Fragment is done: the memory is freed and the reference that parent_ held
\* is given up next
DestroyEnd(h) ==
  /\ thr[h].pc = "destroying"
  /\ frags' = [frags EXCEPT ![thr[h].rel] = NoFragment]
  /\ IF frags[thr[h].rel].parent_ = Null
     THEN Step(h, Idle)
     ELSE Step(h, [thr[h] EXCEPT !.pc = "releasing",
                                 !.rel = frags[thr[h].rel].parent_])
  /\ UNCHANGED <<head_, ref, steps>>

ThreadNext ==
  \/ \E h \in Handles, k \in Keys, v \in Vals :
       StartEdit(h, "insert_or_assign", k, v)
  \/ \E h \in Handles : StartEdit(h, "detach", 0, 0)
  \/ \E h \in Handles, k \in Keys, residue \in Vals : StartMove(h, k, residue)
  \/ \E h \in Handles : Allocate(h)
  \/ \E h \in Handles : BeginWrite(h)
  \/ \E h \in Handles : EndWrite(h)
  \/ \E h \in Handles : BeginRead(h)
  \/ \E h \in Handles : EndRead(h)
  \/ \E h \in Handles, g \in Handles : ThreadCopy(h, g)
  \/ \E h \in Handles : Drop(h)
  \/ \E h \in Handles : ReleaseStep(h)
  \/ \E h \in Handles : DestroyEnd(h)

ThreadSpec == Init /\ [][ThreadNext]_vars

\* the fragments whose members thread h is writing
Writes(h) ==
  CASE thr[h].pc = "writing" -> {head_[h]}
    [] thr[h].pc = "destroying" -> {thr[h].rel}
    [] OTHER -> {}

\* the fragments whose members thread h is reading
Reads(h) ==
  CASE thr[h].pc = "reading" -> ChainSet(frags, head_[h])
    [] thr[h].pc = "shared" -> {head_[h]}
    [] thr[h].pc = "writing" /\ thr[h].op # "move" ->
         ChainSet(frags, frags[head_[h]].parent_)
    [] OTHER -> {}

Severed(F, hd) == IF unique(F, hd) THEN F[hd].parent_ ELSE hd

\* every fragment of heap F is live exactly when a handle of H has it as head
\* or a live fragment has it as parent
LiveIffOwned(F, H) == \A f \in FragIds : F[f].live <=> Owners(F, H, f) > 0

\* C21: detach releases the ancestors. In every reachable state a fragment is
\* live exactly when some handle has it as head or some live fragment has it
\* as parent. Whenever the program goes on with a detach() that returns true,
\* the handle's head has no parent afterwards, the fragment that was its
\* parent has one reference less, and fragments are still live exactly when
\* owned. If the only owner left of that fragment is another handle g whose
\* head it is, g's head has use count 1 again, g.detach() returns false when
\* that head has no parent of its own and true when it has one, and no
\* insert_or_assign, insert, emplace, erase or detach on g gives g a new head
\* or a greater depth.
C21_DetachReleases ==
  /\ LiveIffOwned(frags, head_)
  /\ Running =>
       \A h \in Handles :
         Alive(h) =>
           LET r == DetachOut(h)
               pp == Severed(frags, head_[h])
           IN r.ret = 1 =>
                /\ pp # Null
                /\ r.F[r.H[h]].parent_ = Null
                /\ r.F[pp].use_count = frags[pp].use_count - 1
                /\ LiveIffOwned(r.F, r.H)
                /\ \A g \in Handles \ {h} :
                     (r.H[g] = pp /\ Owners(r.F, r.H, pp) = 1) =>
                       /\ unique(r.F, pp)
                       /\ detach(r.F, pp).ret = (r.F[pp].parent_ # Null)
                       /\ detach(r.F, pp).hd = pp
                       /\ \A k \in Keys :
                            /\ erase(r.F, pp, k).hd = pp
                            /\ get_depth(erase(r.F, pp, k).F, pp)
                                 = get_depth(r.F, pp)
                            /\ \A v \in Vals :
                                 \A m \in {insert_or_assign(r.F, pp, k, v),
                                           insert(r.F, pp, k, v),
                                           emplace(r.F, pp, k, v)} :
                                   /\ m.hd = pp
                                   /\ get_depth(m.F, pp) = get_depth(r.F, pp)

\* the program goes on with a handle whose head is unique and holds entries,
\* and whose parent is the head of another handle, has no parent and has no
\* other owner than these two
C21_Witness ==
  \E h \in Handles, g \in Handles :
    /\ h # g /\ Alive(h) /\ Alive(g)
    /\ Running
    /\ unique(frags, head_[h])
    /\ \E k \in Keys : contains_key(frags[head_[h]].key_values_, k)
    /\ frags[head_[h]].parent_ = head_[g]
    /\ frags[head_[g]].use_count = 2
    /\ frags[head_[g]].parent_ = Null

\* C21 as stated: whenever a detach() that returns true on a handle with a
\* parent leaves another handle g as the only owner of that former parent,
\* g.detach() returns false
C21_OwnerDetachFalse ==
  \A h \in Handles :
    Alive(h) =>
      LET r == DetachOut(h)
          pp == frags[head_[h]].parent_
      IN (r.ret = 1 /\ pp # Null) =>
           \A g \in Handles \ {h} :
             (r.H[g] = pp /\ Owners(r.F, r.H, pp) = 1) =>
               ~detach(r.F, pp).ret

\* ---- C22 ----
\* handles h and g are two variables of one map made from literal entries:
\* they share a head that has no parent and no tombstone and binds k
CopiedLiteral(h, g, k) ==
  /\ h # g /\ Alive(h)
  /\ head_[g] = head_[h]
  /\ frags[head_[h]].parent_ = Null
  /\ frags[head_[h]].deleted_keys_ = {}
  /\ contains_key(frags[head_[h]].key_values_, k)

\* C22: m7 is made from literal entries in one root fragment and m8 is a
\* copy of it; whenever the program goes on with m7.erase(k) for a key k of
\* m7, the call returns true, iteration over m7 no longer yields k, m7 does
\* not contain k, m8 keeps the root as head and still contains k with its
\* value, and m7's head is a new fragment that has the root as parent and
\* holds a tombstone for k, because the root still binds k.
C22_EraseUnderCopyTombstones ==
  Running =>
    \A h \in Handles, g \in Handles, k \in Keys :
      CopiedLiteral(h, g, k) =>
        LET r == EraseOut(h, k)
            root == head_[h]
            hd == r.H[h]
        IN /\ r.ret = 1
           /\ \A p \in Range(iterate(r.F, hd)) : p[1] # k
           /\ ~contains(r.F, hd, k)
           /\ size(r.F, hd) = size(frags, root) - 1
           /\ r.H[g] = root
           /\ contains(r.F, root, k)
           /\ at(r.F, root, k) = at(frags, root, k)
           /\ hd # root
           /\ r.F[hd].parent_ = root
           /\ contains_key(r.F[root].key_values_, k)
           /\ k \in r.F[hd].deleted_keys_

\* the program has performed an operation and goes on with two handles that
\* share a root fragment binding some key
C22_Witness ==
  \E h \in Handles, g \in Handles, k \in Keys :
    /\ CopiedLiteral(h, g, k)
    /\ Running
    /\ steps > 0

\* C22 as stated: after m8 = copy(m7) and m7.erase(k), m7's head fragment
\* holds no tombstone for k
C22_NoTombstoneUnderCopy ==
  Running =>
    \A h \in Handles, g \in Handles, k \in Keys :
      CopiedLiteral(h, g, k) =>
        LET r == EraseOut(h, k)
        IN k \notin r.F[r.H[h]].deleted_keys_
====
